---------------------------- MODULE Spec2Model ----------------------------
(***************************************************************************)
(* Texture compression for glTF assets: lib/compressTextures.js (option    *)
(* validation, per-image routing, the encoder tasks and the temp directory *)
(* they share) and lib/loadKTX.js (the KTX container parser).              *)
(*                                                                         *)
(* JavaScript runs one callback at a time, so each action below is one     *)
(* stretch of synchronous code: a step of compressTextures itself, or the  *)
(* completion of one asynchronous operation together with the promise      *)
(* continuations that run in the same turn.                                *)
(***************************************************************************)
EXTENDS Integers, Sequences, FiniteSets, TLC

VARIABLES
    gltfDefined,   \* whether the gltf argument of compressTextures is defined
    options,       \* the options object (mutated by the defaults)
    given,         \* the options as the caller passed them
    images,        \* gltf.images: image id -> image.extras._pipeline
    loaded,        \* gltf.images as they were when compressTextures was called
    pc,            \* position in compressTextures: "start", "loop", "returned", "threw"
    imageId,       \* the next image the for-in loop visits
    thrown,        \* the error compressTextures threw synchronously
    task,          \* per image: the pending step of its promise chain
    route,         \* per image: the branch taken at lines 139-167
    input,         \* per image: what is handed to the encoder
    taskError,     \* per image: the rejection reason of its promise
    spawnCount,    \* per image: calls of child_process.spawn
    invocation,    \* per image: the tool and arguments given to child_process.spawn
    exitCode,      \* per image: the code of the encoder's 'exit' event
    dirExists,     \* the temp directory exists on disk
    dirCreated,    \* the temp directory has been created at some time
    files,         \* files inside the temp directory
    ensureDir,     \* fsExtraEnsureDir(tempDirectory)
    all,           \* Promise.all(promises)
    remove,        \* fsExtraRemove(tempDirectory)
    removeCount,   \* calls of fsExtraRemove
    result,        \* the promise compressTextures returns
    resolvedWith,  \* the value the returned promise is fulfilled with
    data,          \* the argument of loadKTX: an ArrayBuffer or a typed-array view
    parsed         \* what loadKTX produced for data

vars == <<gltfDefined, options, given, images, loaded, pc, imageId, thrown, task, route,
          input, taskError, spawnCount, invocation, exitCode, dirExists, dirCreated,
          files, ensureDir, all, remove, removeCount, result, resolvedWith, data, parsed>>

ktxVars == <<data, parsed>>

runVars == <<gltfDefined, options, given, images, loaded, pc, imageId, thrown, task, route,
             input, taskError, spawnCount, invocation, exitCode, dirExists, dirCreated,
             files, ensureDir, all, remove, removeCount, result, resolvedWith>>

(***************************************************************************)
(* Bounds                                                                  *)
(***************************************************************************)
NumImages == 2

MaxQuality == 11

\* Exit codes of a failing encoder: 1..MaxExitCode.
MaxExitCode == 2

\* The ids of gltf.images, in for-in order.
ImageIds == DOMAIN images

(***************************************************************************)
(* JavaScript values.  An optional value is a sequence of length <= 1.     *)
(***************************************************************************)
Undefined == <<>>

Some(v) == <<v>>

defined(x) == x # Undefined

defaultValue(a, b) == IF defined(a) THEN a[1] ELSE b

(***************************************************************************)
(* Module-level tables of compressTextures.js                              *)
(***************************************************************************)
pvrTexToolExtensions == {".jpeg", ".jpg", ".png", ".bmp"}

etc2compExtensions == {".png"}

crunchExtensions == {".jpeg", ".jpg", ".png", ".bmp"}

astcencExtensions == {".jpeg", ".jpg", ".png", ".bmp", ".gif"}

formats == {"pvrtc1", "pvrtc2", "etc1", "etc2", "astc", "dxt1", "dxt3", "dxt5",
            "crunch-dxt1", "crunch-dxt3", "crunch-dxt5"}

astcBlockSizes == {"4x4", "5x4", "5x5", "6x5", "6x6", "8x5", "8x6", "8x8",
                   "10x5", "10x6", "10x8", "10x10", "12x10", "12x12"}

(***************************************************************************)
(* Option validation, lines 54-86.  bitrate is held in tenths of a bit per *)
(* pixel (2.0 is 20) so that fractional bitrates can be told apart.        *)
(***************************************************************************)
WithDefaults(o) ==
    [o EXCEPT !.quality = Some(defaultValue(o.quality, 5)),
              !.bitrate = Some(defaultValue(o.bitrate, 20)),
              !.blockSize = Some(defaultValue(o.blockSize, "8x8")),
              !.alphaBit = Some(defaultValue(o.alphaBit, FALSE))]

ValidationErrorNoUpperQuality(g, o) ==
    IF ~g THEN "gltf must be defined"
    ELSE IF ~defined(o.format) THEN "options.format must be defined."
    ELSE IF o.format[1] \notin formats THEN "format is not a supported format"
    ELSE LET d == WithDefaults(o)
             format == d.format[1]
         IN  IF d.quality[1] < 0
             THEN "Quality must be between 0 and 10."
             ELSE IF format \in {"pvrtc1", "pvrtc2"} /\ d.bitrate[1] # 20 /\ d.bitrate[1] # 40
             THEN "bitrate (bits-per-pixel) must be 2 or 4 when using pvrtc."
             ELSE IF format = "astc" /\ d.blockSize[1] \notin astcBlockSizes
             THEN "Block size is not supported"
             ELSE "none"

ValidationErrorNoBitrateCheck(g, o) ==
    IF ~g THEN "gltf must be defined"
    ELSE IF ~defined(o.format) THEN "options.format must be defined."
    ELSE IF o.format[1] \notin formats THEN "format is not a supported format"
    ELSE LET d == WithDefaults(o)
             format == d.format[1]
         IN  IF d.quality[1] < 0 \/ d.quality[1] > 10
             THEN "Quality must be between 0 and 10."
             ELSE IF format = "astc" /\ d.blockSize[1] \notin astcBlockSizes
             THEN "Block size is not supported"
             ELSE "none"

\* The message of the DeveloperError thrown by lines 57-86, or "none".
ValidationError(g, o) ==
    IF ~g THEN "gltf must be defined"
    ELSE IF ~defined(o.format) THEN "options.format must be defined."
    ELSE IF o.format[1] \notin formats THEN "format is not a supported format"
    ELSE LET d == WithDefaults(o)
             format == d.format[1]
         IN  IF d.quality[1] < 0 \/ d.quality[1] > 10
             THEN "Quality must be between 0 and 10."
             ELSE IF format \in {"pvrtc1", "pvrtc2"} /\ d.bitrate[1] # 20 /\ d.bitrate[1] # 40
             THEN "bitrate (bits-per-pixel) must be 2 or 4 when using pvrtc."
             ELSE IF format = "astc" /\ d.blockSize[1] \notin astcBlockSizes
             THEN "Block size is not supported"
             ELSE "none"

(***************************************************************************)
(* Choice of the compress tool, lines 88-118                               *)
(***************************************************************************)
inputExtensions(format) ==
    IF format \in {"pvrtc1", "pvrtc2"} THEN pvrTexToolExtensions
    ELSE IF format \in {"etc1", "etc2"} THEN etc2compExtensions
    ELSE IF format \in {"dxt1", "dxt3", "dxt5", "crunch-dxt1", "crunch-dxt3", "crunch-dxt5"}
    THEN crunchExtensions
    ELSE astcencExtensions

resizeToPowerOfTwo(format) == format \in {"etc1", "etc2", "astc"}

compressFunction(format) ==
    IF format \in {"pvrtc1", "pvrtc2"} THEN "compressWithPVRTexTool"
    ELSE IF format \in {"etc1", "etc2"} THEN "compressWithEtc2comp"
    ELSE IF format \in {"dxt1", "dxt3", "dxt5", "crunch-dxt1", "crunch-dxt3", "crunch-dxt5"}
    THEN "compressWithCrunch"
    ELSE "compressWithAstcenc"

(***************************************************************************)
(* 32-bit integer arithmetic of previousPowerOfTwo and isPowerOfTwo        *)
(***************************************************************************)
RECURSIVE BitAnd(_, _)
BitAnd(a, b) ==
    IF a = 0 \/ b = 0 THEN 0
    ELSE (IF a % 2 = 1 /\ b % 2 = 1 THEN 1 ELSE 0) + 2 * BitAnd(a \div 2, b \div 2)

RECURSIVE BitOr(_, _)
BitOr(a, b) ==
    IF a = 0 THEN b
    ELSE IF b = 0 THEN a
    ELSE (IF a % 2 = 1 \/ b % 2 = 1 THEN 1 ELSE 0) + 2 * BitOr(a \div 2, b \div 2)

RECURSIVE Pow2(_)
Pow2(k) == IF k = 0 THEN 1 ELSE 2 * Pow2(k - 1)

ShiftRight(n, k) == n \div Pow2(k)

isPowerOfTwo(n) == n # 0 /\ BitAnd(n, n - 1) = 0

\* previousPowerOfTwo without the last smear, n |= n >> 16.
previousPowerOfTwoNoShift16(n) ==
    LET n1 == BitOr(n, ShiftRight(n, 1))
        n2 == BitOr(n1, ShiftRight(n1, 2))
        n4 == BitOr(n2, ShiftRight(n2, 4))
        n8 == BitOr(n4, ShiftRight(n4, 8))
    IN  n8 - ShiftRight(n8, 1)

previousPowerOfTwo(n) ==
    LET n1 == BitOr(n, ShiftRight(n, 1))
        n2 == BitOr(n1, ShiftRight(n1, 2))
        n4 == BitOr(n2, ShiftRight(n2, 4))
        n8 == BitOr(n4, ShiftRight(n4, 8))
        n16 == BitOr(n8, ShiftRight(n8, 16))
    IN  n16 - ShiftRight(n16, 1)

(***************************************************************************)
(* The images of the asset.  width and height are the picture's size,      *)
(* which the code can read (jimpImage.bitmap) only when jimpImage is       *)
(* defined.  source is a token naming the bytes the record holds.          *)
(***************************************************************************)
ImageKinds ==
    { [absolutePath |-> TRUE, jimpImage |-> TRUE, extension |-> ".png",
       width |-> 128, height |-> 128, transparent |-> FALSE, imageChanged |-> FALSE],
      [absolutePath |-> FALSE, jimpImage |-> TRUE, extension |-> ".png",
       width |-> 211, height |-> 211, transparent |-> TRUE, imageChanged |-> FALSE],
      [absolutePath |-> TRUE, jimpImage |-> FALSE, extension |-> ".gif",
       width |-> 128, height |-> 128, transparent |-> FALSE, imageChanged |-> FALSE],
      [absolutePath |-> FALSE, jimpImage |-> TRUE, extension |-> ".jpg",
       width |-> 64, height |-> 128, transparent |-> FALSE, imageChanged |-> TRUE] }

OriginalSource(i) == [bytes |-> "original", image |-> i]

ImageRecord(kind, i) ==
    [absolutePath |-> kind.absolutePath, jimpImage |-> kind.jimpImage,
     extension |-> kind.extension, width |-> kind.width, height |-> kind.height,
     transparent |-> kind.transparent, imageChanged |-> kind.imageChanged,
     source |-> OriginalSource(i)]

OnlyFormat(f) ==
    [format |-> f, quality |-> Undefined, bitrate |-> Undefined,
     blockSize |-> Undefined, alphaBit |-> Undefined]

\* The option sets of the batch runs: each supported format with the defaults,
\* and the rejected option sets of the test suite.
RunOptions ==
    { OnlyFormat(Some(f)) : f \in formats }
    \cup { OnlyFormat(Undefined), OnlyFormat(Some("invalid-format")),
           [OnlyFormat(Some("etc1")) EXCEPT !.quality = Some(11)],
           [OnlyFormat(Some("pvrtc1")) EXCEPT !.bitrate = Some(30)],
           [OnlyFormat(Some("astc")) EXCEPT !.blockSize = Some("1x1")] }

NoTasks ==
    /\ given = options
    /\ loaded = images
    /\ pc = "start"
    /\ imageId = 1
    /\ thrown = "none"
    /\ task = [i \in ImageIds |-> "idle"]
    /\ route = [i \in ImageIds |-> "none"]
    /\ input = [i \in ImageIds |-> Undefined]
    /\ taskError = [i \in ImageIds |-> "none"]
    /\ spawnCount = [i \in ImageIds |-> 0]
    /\ invocation = [i \in ImageIds |-> Undefined]
    /\ exitCode = [i \in ImageIds |-> Undefined]
    /\ dirExists = FALSE
    /\ dirCreated = FALSE
    /\ files = {}
    /\ ensureDir = "notCalled"
    /\ all = "notCreated"
    /\ remove = "notCalled"
    /\ removeCount = 0
    /\ result = "none"
    /\ resolvedWith = Undefined

\* loadKTX is not in use.
NoContainer ==
    /\ data = Undefined
    /\ parsed = Undefined

Init ==
    /\ gltfDefined \in BOOLEAN
    /\ options \in RunOptions
    /\ IF gltfDefined
       THEN \E n \in 0..NumImages : \E kinds \in [1..n -> ImageKinds] :
                images = [i \in 1..n |-> ImageRecord(kinds[i], i)]
       ELSE images = <<>>
    /\ NoTasks
    /\ NoContainer

(***************************************************************************)
(* The encoder command lines, lines 242-250 and 262-410.  o is the         *)
(* compressOptions of the image: the options with their defaults and the   *)
(* image's transparent flag.  Numbers are written in decimal, as spawn      *)
(* hands them to the tool.                                                 *)
(***************************************************************************)
\* The options of every invocation sharing the flag of the last image of the
\* batch, as if the loop's variable were read when the invocation is built.
compressOptionsOfLastImage(o, image) ==
    [format |-> o.format[1], quality |-> o.quality[1], bitrate |-> o.bitrate[1],
     blockSize |-> o.blockSize[1], alphaBit |-> o.alphaBit[1],
     transparent |-> loaded[Len(loaded)].transparent]

\* Lines 135-137: combine(options, {transparent : transparent}).
compressOptions(o, image) ==
    [format |-> o.format[1], quality |-> o.quality[1], bitrate |-> o.bitrate[1],
     blockSize |-> o.blockSize[1], alphaBit |-> o.alphaBit[1],
     transparent |-> image.transparent]

\* Lines 204-207: a fresh file name in the temp directory; name stands for
\* the uuid drawn.
getTempImagePath(name, extension) == "tempDirectory/" \o name \o extension

\* outputExtension without the test for crunch of line 244.
outputExtensionAlwaysKtx(format) == ".ktx"

\* Line 243-247: the extension of the output file.
outputExtension(format) == IF format \in {"crunch-dxt1", "crunch-dxt3", "crunch-dxt5"}
                           THEN ".crn" ELSE ".ktx"

\* os.cpus().length
cpuCount == "cpuCount"

\* The index rounded to the nearest tier instead of floored.
qualityIndexRound(quality) == (quality * 10 + 10) \div 21

\* Math.floor(options.quality / 2.1), the index into the quality labels.
qualityIndex(quality) == (quality * 10) \div 21

\* qualityOptions[quality]: undefined when the index is outside the array.
labelAt(labels, index) ==
    IF index + 1 \in DOMAIN labels THEN labels[index + 1] ELSE "undefined"

compressWithEtc2comp(inputPath, outputPath, o) ==
    LET quality == o.quality * 10
        cliFormat == IF o.format = "etc1" THEN "ETC1"
                     ELSE IF o.format = "etc2"
                     THEN IF o.transparent /\ o.alphaBit THEN "RGB8A1"
                          ELSE IF o.transparent /\ ~o.alphaBit THEN "RGBA8"
                          ELSE "RGB8"
                     ELSE "undefined"
    IN  [path |-> "etc2comp",
         options |-> <<inputPath, "-format", cliFormat, "-effort", ToString(quality),
                       "-jobs", cpuCount, "-output", outputPath>>]

compressWithPVRTexTool(inputPath, outputPath, o) ==
    LET cliQuality == labelAt(<<"pvrtcfastest", "pvrtcfast", "pvrtcnormal", "pvrtchigh",
                                "pvrtcbest">>, qualityIndex(o.quality))
        cliFormat == IF o.format = "pvrtc1"
                     THEN IF o.transparent /\ o.bitrate = 20 THEN "PVRTC1_2"
                          ELSE IF o.transparent /\ o.bitrate = 40 THEN "PVRTC1_4"
                          ELSE IF ~o.transparent /\ o.bitrate = 20 THEN "PVRTC1_2_RGB"
                          ELSE IF ~o.transparent /\ o.bitrate = 40 THEN "PVRTC1_4_RGB"
                          ELSE "undefined"
                     ELSE IF o.format = "pvrtc2"
                     THEN IF o.bitrate = 20 THEN "PVRTC2_2"
                          ELSE IF o.bitrate = 40 THEN "PVRTC2_4"
                          ELSE "undefined"
                     ELSE "undefined"
    IN  [path |-> "PVRTexToolCLI",
         options |-> <<"-i", inputPath, "-o", outputPath, "-f", cliFormat, "-q", cliQuality,
                       "-square", "-", "-pot", "-">>]

compressWithCrunch(inputPath, outputPath, o) ==
    LET dxtQuality == labelAt(<<"superfast", "fast", "normal", "better", "uber">>,
                              qualityIndex(o.quality))
        crunch == o.format \in {"crunch-dxt1", "crunch-dxt3", "crunch-dxt5"}
        fileFormat == IF crunch THEN "crn" ELSE "ktx"
        format == IF o.format = "crunch-dxt1" THEN "dxt1"
                  ELSE IF o.format = "crunch-dxt3" THEN "dxt3"
                  ELSE IF o.format = "crunch-dxt5" THEN "dxt5"
                  ELSE o.format
        cliFormat == IF format = "dxt1" THEN (IF o.transparent THEN "-DXT1A" ELSE "-DXT1")
                     ELSE IF format = "dxt3" THEN "-DXT3"
                     ELSE IF format = "dxt5" THEN "-DXT5"
                     ELSE "undefined"
    IN  [path |-> "crunch",
         options |-> <<"-file", inputPath, "-out", outputPath, "-fileformat", fileFormat,
                       "-helperThreads", cpuCount, "-dxtQuality", dxtQuality,
                       "-rescalemode", "lo", "-mipMode", "None", cliFormat>>]

\* Lines 369-376; the number is held in tenths.  toFixed(1) of a whole number
\* and toString of a number with one decimal.
numberToString(number) ==
    IF number % 10 = 0
    THEN ToString(number \div 10) \o ".0"
    ELSE ToString(number \div 10) \o "." \o ToString(number % 10)

compressWithAstcenc(inputPath, outputPath, o) ==
    LET cliQuality == labelAt(<<"-veryfast", "-fast", "-medium", "-thorough",
                                "-exhaustive">>, qualityIndex(o.quality))
        cliRate == IF o.bitrate # 20 THEN numberToString(o.bitrate) ELSE o.blockSize
        cliOptions == <<"-cl", inputPath, outputPath, cliRate, "-j", cpuCount, cliQuality>>
    IN  [path |-> "astcenc",
         options |-> IF o.transparent THEN Append(cliOptions, "-alphablend")
                     ELSE cliOptions]

\* Lines 248-249: the command line compressFile builds for the image.
commandLine(inputPath, o) ==
    LET outputPath == getTempImagePath("output", outputExtension(o.format))
        tool == compressFunction(o.format)
    IN  IF tool = "compressWithPVRTexTool" THEN compressWithPVRTexTool(inputPath, outputPath, o)
        ELSE IF tool = "compressWithEtc2comp" THEN compressWithEtc2comp(inputPath, outputPath, o)
        ELSE IF tool = "compressWithCrunch" THEN compressWithCrunch(inputPath, outputPath, o)
        ELSE compressWithAstcenc(inputPath, outputPath, o)

(***************************************************************************)
(* compressTextures, the synchronous part (lines 54-179)                   *)
(***************************************************************************)
\* Lines 57-86: one of the five checks throws a DeveloperError.
ValidateThrow ==
    /\ pc = "start"
    /\ ValidationError(gltfDefined, options) # "none"
    /\ pc' = "threw"
    /\ thrown' = "InvalidOptions"
    /\ options' = IF gltfDefined /\ defined(options.format) /\ options.format[1] \in formats
                  THEN WithDefaults(options) ELSE options
    /\ UNCHANGED ktxVars
    /\ UNCHANGED <<given, invocation, exitCode, resolvedWith>>
    /\ UNCHANGED <<gltfDefined, images, loaded, imageId, task, route, input, taskError,
                   spawnCount, dirExists, dirCreated, files, ensureDir, all, remove,
                   removeCount, result>>

\* Lines 55-121: the options pass, the defaults are stored, the tool is chosen
\* and the name of the temp directory is drawn.
ValidatePass ==
    /\ pc = "start"
    /\ ValidationError(gltfDefined, options) = "none"
    /\ options' = WithDefaults(options)
    /\ pc' = "loop"
    /\ UNCHANGED ktxVars
    /\ UNCHANGED <<given, invocation, exitCode, resolvedWith>>
    /\ UNCHANGED <<gltfDefined, images, loaded, imageId, thrown, task, route, input,
                   taskError, spawnCount, dirExists, dirCreated, files, ensureDir,
                   all, remove, removeCount, result>>

\* Line 139: the raw image data is needed.
needsRawImage(format, image) ==
    \/ resizeToPowerOfTwo(format)
    \/ image.imageChanged
    \/ image.extension \notin inputExtensions(format)

\* Lines 149-157: the size jimpImage has after the resize.
resizedWidth(format, image) ==
    IF resizeToPowerOfTwo(format)
       /\ (~isPowerOfTwo(image.width) \/ ~isPowerOfTwo(image.height))
    THEN previousPowerOfTwo(image.width) ELSE image.width

resizedHeight(format, image) ==
    IF resizeToPowerOfTwo(format)
       /\ (~isPowerOfTwo(image.width) \/ ~isPowerOfTwo(image.height))
    THEN previousPowerOfTwo(image.height) ELSE image.height

\* Lines 125-169: one iteration of the for-in loop.
LoopStep ==
    /\ pc = "loop"
    /\ imageId \in ImageIds
    /\ LET i == imageId
           image == images[i]
           format == options.format[1]
       IN  IF needsRawImage(format, image)
           THEN IF ~image.jimpImage
                THEN \* line 147
                     /\ pc' = "threw"
                     /\ thrown' = "UnsupportedInputFormat"
                     /\ UNCHANGED <<images, imageId, task, route, input, spawnCount,
                                    invocation>>
                ELSE \* lines 149-158: compressJimpImage starts getBufferAsync
                     /\ images' = [images EXCEPT ![i].width = resizedWidth(format, image),
                                                 ![i].height = resizedHeight(format, image)]
                     /\ route' = [route EXCEPT ![i] = "jimp"]
                     /\ task' = [task EXCEPT ![i] = "png"]
                     /\ input' = [input EXCEPT ![i] =
                            Some([path |-> "temp", bytes |-> "png", extension |-> ".png"])]
                     /\ imageId' = i + 1
                     /\ UNCHANGED <<pc, thrown, spawnCount, invocation>>
           ELSE IF image.absolutePath
                THEN \* line 162: compressFile spawns the encoder at once
                     /\ route' = [route EXCEPT ![i] = "file"]
                     /\ task' = [task EXCEPT ![i] = "spawned"]
                     /\ spawnCount' = [spawnCount EXCEPT ![i] = @ + 1]
                     /\ invocation' = [invocation EXCEPT ![i] =
                            Some(commandLine("absolutePath", compressOptions(options, image)))]
                     /\ input' = [input EXCEPT ![i] =
                            Some([path |-> "absolutePath", bytes |-> "original",
                                  extension |-> image.extension])]
                     /\ imageId' = i + 1
                     /\ UNCHANGED <<pc, thrown, images>>
                ELSE \* line 165: compressBuffer starts writing the temp input file
                     /\ route' = [route EXCEPT ![i] = "buffer"]
                     /\ task' = [task EXCEPT ![i] = "write"]
                     /\ input' = [input EXCEPT ![i] =
                            Some([path |-> "temp", bytes |-> "original",
                                  extension |-> image.extension])]
                     /\ imageId' = i + 1
                     /\ UNCHANGED <<pc, thrown, images, spawnCount, invocation>>
    /\ UNCHANGED ktxVars
    /\ UNCHANGED <<given, exitCode, resolvedWith>>
    /\ UNCHANGED <<gltfDefined, options, loaded, taskError, dirExists, dirCreated, files,
                   ensureDir, all, remove, removeCount, result>>

\* Line 172: the loop is over; fsExtraEnsureDir is called and its promise,
\* chained, is returned.
ReturnPromise ==
    /\ pc = "loop"
    /\ imageId = Len(images) + 1
    /\ pc' = "returned"
    /\ ensureDir' = "pending"
    /\ result' = "pending"
    /\ UNCHANGED ktxVars
    /\ UNCHANGED <<given, invocation, exitCode, resolvedWith>>
    /\ UNCHANGED <<gltfDefined, options, images, loaded, imageId, thrown, task, route,
                   input, taskError, spawnCount, dirExists, dirCreated, files, all, remove,
                   removeCount>>

(***************************************************************************)
(* The asynchronous part.  Callbacks run only once the synchronous part of *)
(* compressTextures has returned or thrown.  In Spec a failing encoder     *)
(* exits with code 1; SpecTask lets it exit with other codes.              *)
(***************************************************************************)
CallbacksRun == pc \in {"returned", "threw"}

\* Promise.all taken for a race: fulfilled as soon as no promise is rejected.
AggregateIgnoresPending(t) ==
    IF \E i \in DOMAIN t : t[i] = "failed" THEN "rejected" ELSE "fulfilled"

\* Promise.all over the per-image promises: rejected with the first rejection,
\* fulfilled when every promise is.
Aggregate(t) ==
    IF \E i \in DOMAIN t : t[i] = "failed" THEN "rejected"
    ELSE IF \A i \in DOMAIN t : t[i] = "done" THEN "fulfilled"
    ELSE "pending"

\* Lines 174-177 once the task states are t: when Promise.all settles, the
\* finally handler calls fsExtraRemove without returning its promise, and the
\* returned promise settles in the same turn.
Settle(a, t) ==
    IF a = "pending" /\ Aggregate(t) # "pending"
    THEN /\ all' = Aggregate(t)
         /\ remove' = "pending"
         /\ removeCount' = removeCount + 1
         /\ result' = IF Aggregate(t) = "fulfilled" THEN "resolved" ELSE "rejected"
         /\ resolvedWith' = IF Aggregate(t) = "fulfilled"
                            THEN Some([type |-> "Array",
                                       elements |-> [i \in DOMAIN t |-> "undefined"]])
                            ELSE Undefined
    ELSE /\ all' = a
         /\ UNCHANGED <<remove, removeCount, result, resolvedWith>>

\* Lines 172-174: the directory is made; the continuation calls Promise.all.
EnsureDirDone ==
    /\ ensureDir = "pending"
    /\ ensureDir' = "ok"
    /\ dirExists' = TRUE
    /\ dirCreated' = TRUE
    /\ Settle("pending", task)
    /\ UNCHANGED ktxVars
    /\ UNCHANGED <<given, invocation, exitCode>>
    /\ UNCHANGED <<gltfDefined, options, images, loaded, pc, imageId, thrown, task, route,
                   input, taskError, spawnCount, files>>

\* Line 172: mkdir fails; the returned promise is rejected and the continuation
\* of line 173 never runs.
EnsureDirFail ==
    /\ ensureDir = "pending"
    /\ ensureDir' = "failed"
    /\ result' = "rejected"
    /\ UNCHANGED ktxVars
    /\ UNCHANGED <<given, invocation, exitCode, resolvedWith>>
    /\ UNCHANGED <<gltfDefined, options, images, loaded, pc, imageId, thrown, task, route,
                   input, taskError, spawnCount, dirExists, dirCreated, files, all,
                   remove, removeCount>>

\* Line 176: the recursive delete completes.
RemoveDone ==
    /\ remove = "pending"
    /\ remove' = "done"
    /\ dirExists' = FALSE
    /\ files' = {}
    /\ UNCHANGED ktxVars
    /\ UNCHANGED <<given, invocation, exitCode, resolvedWith>>
    /\ UNCHANGED <<gltfDefined, options, images, loaded, pc, imageId, thrown, task, route,
                   input, taskError, spawnCount, dirCreated, ensureDir, all,
                   removeCount, result>>

\* The delete fails and its rejection is passed on to the returned promise.
RemoveFailRejects ==
    /\ remove = "pending"
    /\ remove' = "failed"
    /\ result' = "rejected"
    /\ resolvedWith' = Undefined
    /\ UNCHANGED ktxVars
    /\ UNCHANGED <<given, invocation, exitCode>>
    /\ UNCHANGED <<gltfDefined, options, images, loaded, pc, imageId, thrown, task, route,
                   input, taskError, spawnCount, dirExists, dirCreated, files,
                   ensureDir, all, removeCount>>

\* Line 176: the delete fails; nothing handles the rejection.
RemoveFail ==
    /\ remove = "pending"
    /\ remove' = "failed"
    /\ UNCHANGED ktxVars
    /\ UNCHANGED <<given, invocation, exitCode, resolvedWith>>
    /\ UNCHANGED <<gltfDefined, options, images, loaded, pc, imageId, thrown, task, route,
                   input, taskError, spawnCount, dirExists, dirCreated, files,
                   ensureDir, all, removeCount, result>>

\* Lines 227-229: the PNG buffer is ready; compressBuffer starts the write.
PngDone(i) ==
    /\ i \in ImageIds
    /\ CallbacksRun
    /\ task[i] = "png"
    /\ task' = [task EXCEPT ![i] = "write"]
    /\ UNCHANGED ktxVars
    /\ UNCHANGED <<given, invocation, exitCode, resolvedWith>>
    /\ UNCHANGED <<gltfDefined, options, images, loaded, pc, imageId, thrown, route, input,
                   taskError, spawnCount, dirExists, dirCreated, files, ensureDir,
                   all, remove, removeCount, result>>

\* Lines 236-238 and 242-250: fsExtra.outputFile makes the directory when it is
\* missing and writes the file; the continuation, compressFile, spawns the encoder.
WriteDone(i) ==
    /\ i \in ImageIds
    /\ CallbacksRun
    /\ task[i] = "write"
    /\ task' = [task EXCEPT ![i] = "spawned"]
    /\ spawnCount' = [spawnCount EXCEPT ![i] = @ + 1]
    /\ invocation' = [invocation EXCEPT ![i] =
           Some(commandLine(getTempImagePath("input", input[i][1].extension),
                            compressOptions(options, images[i])))]
    /\ dirExists' = TRUE
    /\ dirCreated' = TRUE
    /\ files' = files \cup {<<"input", i>>}
    /\ UNCHANGED ktxVars
    /\ UNCHANGED <<given, exitCode, resolvedWith>>
    /\ UNCHANGED <<gltfDefined, options, images, loaded, pc, imageId, thrown, route, input,
                   taskError, ensureDir, all, remove, removeCount, result>>

\* WriteFail with the rejection swallowed: the continuation of line 237 runs
\* and compressFile spawns the encoder although no input file was written.
WriteFailStillSpawns(i) ==
    /\ i \in ImageIds
    /\ CallbacksRun
    /\ task[i] = "write"
    /\ task' = [task EXCEPT ![i] = "spawned"]
    /\ spawnCount' = [spawnCount EXCEPT ![i] = @ + 1]
    /\ invocation' = [invocation EXCEPT ![i] =
           Some(commandLine(getTempImagePath("input", input[i][1].extension),
                            compressOptions(options, images[i])))]
    /\ UNCHANGED ktxVars
    /\ UNCHANGED <<gltfDefined, options, given, images, loaded, pc, imageId, thrown, route,
                   input, taskError, exitCode, dirExists, dirCreated, files, ensureDir,
                   all, remove, removeCount, result, resolvedWith>>

\* Line 236: the write fails; the task's promise is rejected.
WriteFail(i) ==
    /\ i \in ImageIds
    /\ CallbacksRun
    /\ task[i] = "write"
    /\ task' = [task EXCEPT ![i] = "failed"]
    /\ taskError' = [taskError EXCEPT ![i] = "write error"]
    /\ Settle(all, task')
    /\ UNCHANGED ktxVars
    /\ UNCHANGED <<given, invocation, exitCode>>
    /\ UNCHANGED <<gltfDefined, options, images, loaded, pc, imageId, thrown, route, input,
                   spawnCount, dirExists, dirCreated, files, ensureDir>>

\* Lines 212-214: the process could not be spawned.
EncoderError(i) ==
    /\ i \in ImageIds
    /\ CallbacksRun
    /\ task[i] = "spawned"
    /\ task' = [task EXCEPT ![i] = "failed"]
    /\ taskError' = [taskError EXCEPT ![i] = "spawn error"]
    /\ Settle(all, task')
    /\ UNCHANGED ktxVars
    /\ UNCHANGED <<given, invocation, exitCode>>
    /\ UNCHANGED <<gltfDefined, options, images, loaded, pc, imageId, thrown, route, input,
                   spawnCount, dirExists, dirCreated, files, ensureDir>>

\* EncoderExitNonZero with the test of line 216 left out: the promise of
\* createProcess is fulfilled and compressFile goes on to read the output.
EncoderExitNonZeroResolves(i, code) ==
    /\ i \in ImageIds
    /\ CallbacksRun
    /\ task[i] = "spawned"
    /\ code # 0
    /\ exitCode' = [exitCode EXCEPT ![i] = Some(code)]
    /\ task' = [task EXCEPT ![i] = "read"]
    /\ UNCHANGED ktxVars
    /\ UNCHANGED <<gltfDefined, options, given, images, loaded, pc, imageId, thrown, route,
                   input, taskError, spawnCount, invocation, dirExists, dirCreated, files,
                   ensureDir, all, remove, removeCount, result, resolvedWith>>

\* Lines 215-217: the encoder exits with a code other than 0.
EncoderExitNonZero(i, code) ==
    /\ i \in ImageIds
    /\ CallbacksRun
    /\ task[i] = "spawned"
    /\ code # 0
    /\ exitCode' = [exitCode EXCEPT ![i] = Some(code)]
    /\ task' = [task EXCEPT ![i] = "failed"]
    /\ taskError' = [taskError EXCEPT ![i] =
           "Converter tool exited with an error code of " \o ToString(code)]
    /\ Settle(all, task')
    /\ UNCHANGED ktxVars
    /\ UNCHANGED <<given, invocation>>
    /\ UNCHANGED <<gltfDefined, options, images, loaded, pc, imageId, thrown, route, input,
                   spawnCount, dirExists, dirCreated, files, ensureDir>>

\* Lines 215-219 and 251-252: the encoder exits with code 0; it has written its
\* output file only if the directory was there.  The continuation starts readFile.
EncoderExitZero(i, wrote) ==
    /\ i \in ImageIds
    /\ CallbacksRun
    /\ task[i] = "spawned"
    /\ wrote => dirExists
    /\ exitCode' = [exitCode EXCEPT ![i] = Some(0)]
    /\ files' = IF wrote THEN files \cup {<<"output", i>>} ELSE files
    /\ task' = [task EXCEPT ![i] = "read"]
    /\ UNCHANGED ktxVars
    /\ UNCHANGED <<given, invocation, resolvedWith>>
    /\ UNCHANGED <<gltfDefined, options, images, loaded, pc, imageId, thrown, route, input,
                   taskError, spawnCount, dirExists, dirCreated, ensureDir, all,
                   remove, removeCount, result>>

\* Lines 252-258 and 190-196: the output file is read and replaceImage installs it.
ReadDone(i) ==
    /\ i \in ImageIds
    /\ CallbacksRun
    /\ task[i] = "read"
    /\ <<"output", i>> \in files
    /\ task' = [task EXCEPT ![i] = "done"]
    /\ images' = [images EXCEPT ![i].source = [bytes |-> "compressed", image |-> i],
                                ![i].extension = outputExtension(options.format[1])]
    /\ Settle(all, task')
    /\ UNCHANGED ktxVars
    /\ UNCHANGED <<given, invocation, exitCode>>
    /\ UNCHANGED <<gltfDefined, options, loaded, pc, imageId, thrown, route, input, taskError,
                   spawnCount, dirExists, dirCreated, files, ensureDir>>

\* Line 252: the output file is not there; the task's promise is rejected.
ReadFail(i) ==
    /\ i \in ImageIds
    /\ CallbacksRun
    /\ task[i] = "read"
    /\ <<"output", i>> \notin files
    /\ task' = [task EXCEPT ![i] = "failed"]
    /\ taskError' = [taskError EXCEPT ![i] = "read error"]
    /\ Settle(all, task')
    /\ UNCHANGED ktxVars
    /\ UNCHANGED <<given, invocation, exitCode>>
    /\ UNCHANGED <<gltfDefined, options, images, loaded, pc, imageId, thrown, route, input,
                   spawnCount, dirExists, dirCreated, files, ensureDir>>

Next ==
    \/ ValidateThrow
    \/ ValidatePass
    \/ LoopStep
    \/ ReturnPromise
    \/ EnsureDirDone
    \/ EnsureDirFail
    \/ RemoveDone
    \/ RemoveFail
    \/ \E i \in 1..NumImages : PngDone(i)
    \/ \E i \in 1..NumImages : WriteDone(i)
    \/ \E i \in 1..NumImages : WriteFail(i)
    \/ \E i \in 1..NumImages : EncoderError(i)
    \/ \E i \in 1..NumImages : EncoderExitNonZero(i, 1)
    \/ \E i \in 1..NumImages : \E wrote \in BOOLEAN : EncoderExitZero(i, wrote)
    \/ \E i \in 1..NumImages : ReadDone(i)
    \/ \E i \in 1..NumImages : ReadFail(i)

Spec == Init /\ [][Next]_vars

(***************************************************************************)
(* Option validation alone: compressTextures called with gltf = {} (no     *)
(* images, as the validation tests call it) or with no gltf, over a wide   *)
(* range of option sets.                                                   *)
(***************************************************************************)
AllOptions ==
    [format : {Undefined} \cup {Some(f) : f \in formats \cup {"invalid-format"}},
     quality : {Undefined} \cup {Some(q) : q \in -1..MaxQuality},
     bitrate : {Undefined} \cup {Some(b) : b \in {20, 25, 30, 40}},
     blockSize : {Undefined} \cup {Some(b) : b \in {"4x4", "8x8", "12x12", "1x1"}},
     alphaBit : {Undefined, Some(TRUE)}]

InitOptions ==
    /\ gltfDefined \in BOOLEAN
    /\ options \in AllOptions
    /\ images = <<>>
    /\ NoTasks
    /\ NoContainer

NextOptions ==
    \/ ValidateThrow
    \/ ValidatePass
    \/ ReturnPromise
    \/ EnsureDirDone
    \/ EnsureDirFail
    \/ RemoveDone
    \/ RemoveFail

SpecOptions == InitOptions /\ [][NextOptions]_vars

(***************************************************************************)
(* The resize alone: one decoded image of any size up to 2^31 - 1, each    *)
(* supported format with its defaults, through validation and the loop.    *)
(***************************************************************************)
MaxDimension == 33

Dimensions ==
    (1..MaxDimension) \cup {211, 1073741823, 1073741824, 1073741825, 2147483647}

InitResize ==
    /\ gltfDefined = TRUE
    /\ options \in {OnlyFormat(Some(f)) : f \in formats}
    /\ \E w \in Dimensions, h \in Dimensions :
           images = <<ImageRecord([absolutePath |-> FALSE, jimpImage |-> TRUE,
                                   extension |-> ".png", width |-> w, height |-> h,
                                   transparent |-> FALSE, imageChanged |-> FALSE], 1)>>
    /\ NoTasks
    /\ NoContainer

NextResize ==
    \/ ValidatePass
    \/ LoopStep

SpecResize == InitResize /\ [][NextResize]_vars

(***************************************************************************)
(* The tasks of a batch of two images under each supported format with its *)
(* defaults, the failing encoder exiting with any code of 1..MaxExitCode.  *)
(***************************************************************************)
InitTask ==
    /\ gltfDefined = TRUE
    /\ options \in {OnlyFormat(Some(f)) : f \in formats}
    /\ \E kinds \in [{1, 2} -> ImageKinds] :
           images = [i \in {1, 2} |-> ImageRecord(kinds[i], i)]
    /\ NoTasks
    /\ NoContainer

NextTask ==
    \/ ValidatePass
    \/ LoopStep
    \/ ReturnPromise
    \/ EnsureDirDone
    \/ EnsureDirFail
    \/ RemoveDone
    \/ RemoveFail
    \/ \E i \in {1, 2} : PngDone(i)
    \/ \E i \in {1, 2} : WriteDone(i)
    \/ \E i \in {1, 2} : WriteFail(i)
    \/ \E i \in {1, 2} : EncoderError(i)
    \/ \E i \in {1, 2} : \E code \in 1..MaxExitCode : EncoderExitNonZero(i, code)
    \/ \E i \in {1, 2} : \E wrote \in BOOLEAN : EncoderExitZero(i, wrote)
    \/ \E i \in {1, 2} : ReadDone(i)
    \/ \E i \in {1, 2} : ReadFail(i)

SpecTask == InitTask /\ [][NextTask]_vars

(***************************************************************************)
(* The encoder invocation alone: one image of each kind, a wide range of   *)
(* option sets, up to the spawn of the encoder.                            *)
(***************************************************************************)
InitEncoder ==
    /\ gltfDefined = TRUE
    /\ options \in AllOptions
    /\ \E kind \in ImageKinds : images = <<ImageRecord(kind, 1)>>
    /\ NoTasks
    /\ NoContainer

NextEncoder ==
    \/ ValidateThrow
    \/ ValidatePass
    \/ LoopStep
    \/ ReturnPromise
    \/ \E i \in 1..NumImages : PngDone(i)
    \/ \E i \in 1..NumImages : WriteDone(i)

SpecEncoder == InitEncoder /\ [][NextEncoder]_vars

(***************************************************************************)
(* The invocations of a batch: two images of any two kinds, each supported *)
(* format with each accepted bitrate of pvrtc and with and without         *)
(* alphaBit, up to the spawn of every encoder.                             *)
(***************************************************************************)
BatchOptions ==
    {[OnlyFormat(Some(f)) EXCEPT !.bitrate = b, !.alphaBit = a] :
        f \in formats, b \in {Undefined, Some(20), Some(40)},
        a \in {Undefined, Some(FALSE), Some(TRUE)}}

InitBatch ==
    /\ gltfDefined = TRUE
    /\ options \in BatchOptions
    /\ \E kinds \in [{1, 2} -> ImageKinds] :
           images = [i \in {1, 2} |-> ImageRecord(kinds[i], i)]
    /\ NoTasks
    /\ NoContainer

NextBatch ==
    \/ ValidatePass
    \/ LoopStep
    \/ ReturnPromise
    \/ \E i \in {1, 2} : PngDone(i)
    \/ \E i \in {1, 2} : WriteDone(i)

SpecBatch == InitBatch /\ [][NextBatch]_vars

(***************************************************************************)
(* loadKTX.js.  A buffer is a sequence of bytes; the byte at offset k is   *)
(* element k + 1.  data is [kind, buffer, byteOffset, length]: for an      *)
(* ArrayBuffer buffer is its contents, byteOffset is 0 and length its      *)
(* byteLength; for a typed-array view buffer is the contents of            *)
(* data.buffer and byteOffset, length delimit the view.                    *)
(***************************************************************************)
MaxPadding == 4

MaxKeyValueBytes == 4

MaxMipmapLevels == 2

fileIdentifier == <<171, 75, 84, 88, 32, 49, 49, 187, 13, 10, 26, 10>>

endiannessTest == 67305985

sizeOfUint32 == 4

\* Cesium.PixelFormat, as parseKTX uses it.
PixelFormat ==
    [DEPTH_COMPONENT |-> 6402, DEPTH_STENCIL |-> 34041, ALPHA |-> 6406, RGB |-> 6407,
     RGBA |-> 6408, LUMINANCE |-> 6409, LUMINANCE_ALPHA |-> 6410,
     RGB_DXT1 |-> 33776, RGBA_DXT1 |-> 33777, RGBA_DXT3 |-> 33778, RGBA_DXT5 |-> 33779,
     RGB_PVRTC_4BPPV1 |-> 35840, RGB_PVRTC_2BPPV1 |-> 35841,
     RGBA_PVRTC_4BPPV1 |-> 35842, RGBA_PVRTC_2BPPV1 |-> 35843, RGB_ETC1 |-> 36196]

isCompressedFormat(f) ==
    f \in {PixelFormat.RGB_DXT1, PixelFormat.RGBA_DXT1, PixelFormat.RGBA_DXT3,
           PixelFormat.RGBA_DXT5, PixelFormat.RGB_PVRTC_4BPPV1,
           PixelFormat.RGB_PVRTC_2BPPV1, PixelFormat.RGBA_PVRTC_4BPPV1,
           PixelFormat.RGBA_PVRTC_2BPPV1, PixelFormat.RGB_ETC1}

validate(f) == f \in {PixelFormat[k] : k \in DOMAIN PixelFormat}

Max(a, b) == IF a > b THEN a ELSE b

compressedTextureSize(f, width, height) ==
    IF f \in {PixelFormat.RGB_DXT1, PixelFormat.RGBA_DXT1, PixelFormat.RGB_ETC1}
    THEN ((width + 3) \div 4) * ((height + 3) \div 4) * 8
    ELSE IF f \in {PixelFormat.RGBA_DXT3, PixelFormat.RGBA_DXT5}
    THEN ((width + 3) \div 4) * ((height + 3) \div 4) * 16
    ELSE IF f \in {PixelFormat.RGB_PVRTC_4BPPV1, PixelFormat.RGBA_PVRTC_4BPPV1}
    THEN (Max(width, 8) * Max(height, 8) * 4 + 7) \div 8
    ELSE IF f \in {PixelFormat.RGB_PVRTC_2BPPV1, PixelFormat.RGBA_PVRTC_2BPPV1}
    THEN (Max(width, 16) * Max(height, 8) * 2 + 7) \div 8
    ELSE 0

\* DataView.getUint32(byteOffset, true): little-endian; the caller has checked
\* that the four bytes are inside the buffer.
getUint32(buffer, byteOffset) ==
    buffer[byteOffset + 1] + 256 * buffer[byteOffset + 2]
        + 65536 * buffer[byteOffset + 3] + 16777216 * buffer[byteOffset + 4]

\* getUint32 throws a RangeError unless the four bytes are inside the buffer.
readable(buffer, byteOffset) == byteOffset + sizeOfUint32 <= Len(buffer)

\* The contents of new Uint8Array(data): the whole ArrayBuffer, or a copy of
\* the elements of the typed array.
bytesOf(d) ==
    IF d.kind = "ArrayBuffer" THEN d.buffer
    ELSE SubSeq(d.buffer, d.byteOffset + 1, d.byteOffset + d.length)

\* RuntimeError is read from Cesium.RuntimError (line 9), which Cesium does
\* not export: every `throw new RuntimeError(message)` raises a TypeError
\* instead, whose message is the engine's.  check keeps the message of the
\* statement that was reached.
throwRuntimeError(message) ==
    [ok |-> FALSE, name |-> "TypeError", message |-> "RuntimeError is not a constructor",
     check |-> message]

\* What DataView.getUint32 and the Uint8Array constructor throw when the
\* bytes asked for are not inside the buffer.
rangeError(where) ==
    [ok |-> FALSE, name |-> "RangeError", message |-> "Offset is outside the bounds",
     check |-> where]

\* Line 212, new Uint8Array(data, byteOffset, imageSize).  Over an ArrayBuffer it
\* is a view of imageSize bytes at byteOffset; given a typed array the
\* constructor ignores the other arguments and copies the whole array.
\* shared: the view aliases the caller's memory; byteOffset: its offset
\* in the buffer it is a view of.
textureView(d, byteOffset, imageSize) ==
    IF d.kind = "ArrayBuffer"
    THEN [shared |-> TRUE, byteOffset |-> byteOffset, length |-> imageSize,
          bytes |-> SubSeq(d.buffer, byteOffset + 1, byteOffset + imageSize),
          backing |-> d.buffer]
    ELSE [shared |-> FALSE, byteOffset |-> 0, length |-> d.length,
          bytes |-> bytesOf(d), backing |-> bytesOf(d)]

\* Line 259, new Uint8Array(texture.buffer, 0, levelSize).
levelZeroView(texture, levelSize) ==
    [shared |-> texture.shared, byteOffset |-> 0, length |-> levelSize,
     bytes |-> SubSeq(texture.backing, 1, levelSize), backing |-> texture.backing]

\* Lines 216-220: the sized formats RGB8 and RGBA8 stand for RGB and RGBA.
remapInternalFormatNoRGBA8(f) ==
    IF f = 32849 THEN PixelFormat.RGB ELSE f

remapInternalFormat(f) ==
    IF f = 32849 THEN PixelFormat.RGB
    ELSE IF f = 32856 THEN PixelFormat.RGBA
    ELSE f

\* failedCheck with the base-format check applied to every texture.
failedCheckBaseFormatAlways(h, glInternalFormat) ==
    LET compressed == isCompressedFormat(glInternalFormat)
    IN  IF ~validate(glInternalFormat)
        THEN "glInternalFormat is not a valid format."
        ELSE IF compressed /\ h.glType # 0
        THEN "glType must be zero when the texture is compressed."
        ELSE IF compressed /\ h.glTypeSize # 1
        THEN "The type size for compressed textures must be 1."
        ELSE IF compressed /\ h.glFormat # 0
        THEN "glFormat must be zero when the texture is compressed."
        ELSE IF compressed /\ h.numberOfMipmapLevels = 0
        THEN "Generating mipmaps for a compressed texture is unsupported."
        ELSE IF h.glBaseInternalFormat # h.glFormat
        THEN "The base internal format must be the same as the format for uncompressed textures."
        ELSE IF h.pixelDepth # 0
        THEN "3D textures are unsupported."
        ELSE IF h.numberOfArrayElements # 0
        THEN "Texture arrays are unsupported."
        ELSE IF h.numberOfFaces # 1
        THEN "Cubemaps are unsupported."
        ELSE ""

\* Lines 222-254: the message of the first check that fails, "" when none does.
failedCheck(h, glInternalFormat) ==
    LET compressed == isCompressedFormat(glInternalFormat)
    IN  IF ~validate(glInternalFormat)
        THEN "glInternalFormat is not a valid format."
        ELSE IF compressed /\ h.glType # 0
        THEN "glType must be zero when the texture is compressed."
        ELSE IF compressed /\ h.glTypeSize # 1
        THEN "The type size for compressed textures must be 1."
        ELSE IF compressed /\ h.glFormat # 0
        THEN "glFormat must be zero when the texture is compressed."
        ELSE IF compressed /\ h.numberOfMipmapLevels = 0
        THEN "Generating mipmaps for a compressed texture is unsupported."
        ELSE IF ~compressed /\ h.glBaseInternalFormat # h.glFormat
        THEN "The base internal format must be the same as the format for uncompressed textures."
        ELSE IF h.pixelDepth # 0
        THEN "3D textures are unsupported."
        ELSE IF h.numberOfArrayElements # 0
        THEN "Texture arrays are unsupported."
        ELSE IF h.numberOfFaces # 1
        THEN "Cubemaps are unsupported."
        ELSE ""

\* Lines 214-262, once the header is read and the texture view made.
validateKTX(h, texture) ==
    LET glInternalFormat == remapInternalFormat(h.glInternalFormat)
        compressed == isCompressedFormat(glInternalFormat)
        levelSize == compressedTextureSize(glInternalFormat, h.pixelWidth, h.pixelHeight)
        message == failedCheck(h, glInternalFormat)
    IN  IF message # ""
        THEN throwRuntimeError(message)
        ELSE IF compressed /\ h.numberOfMipmapLevels > 1
        THEN IF levelSize > Len(texture.backing)
             THEN rangeError("level 0 view")
             ELSE [ok |-> TRUE, internalFormat |-> glInternalFormat,
                   width |-> h.pixelWidth, height |-> h.pixelHeight,
                   bufferView |-> levelZeroView(texture, levelSize)]
        ELSE [ok |-> TRUE, internalFormat |-> glInternalFormat,
              width |-> h.pixelWidth, height |-> h.pixelHeight,
              bufferView |-> texture]

\* Lines 181-204: the twelve header fields after the endianness marker; start
\* is the offset of the identifier.
readHeader(view, start) ==
    [glType |-> getUint32(view, start + 16),
     glTypeSize |-> getUint32(view, start + 20),
     glFormat |-> getUint32(view, start + 24),
     glInternalFormat |-> getUint32(view, start + 28),
     glBaseInternalFormat |-> getUint32(view, start + 32),
     pixelWidth |-> getUint32(view, start + 36),
     pixelHeight |-> getUint32(view, start + 40),
     pixelDepth |-> getUint32(view, start + 44),
     numberOfArrayElements |-> getUint32(view, start + 48),
     numberOfFaces |-> getUint32(view, start + 52),
     numberOfMipmapLevels |-> getUint32(view, start + 56),
     bytesOfKeyValueByteSize |-> getUint32(view, start + 60)]

\* Lines 147-263.
parseKTX(d) ==
    LET byteBuffer == bytesOf(d)
        isKTX == \A i \in 1..Len(fileIdentifier) :
                     i <= Len(byteBuffer) /\ fileIdentifier[i] = byteBuffer[i]
        view == d.buffer
        start == IF d.kind = "ArrayBuffer" THEN 0 ELSE d.byteOffset
    IN  IF ~isKTX THEN throwRuntimeError("Invalid KTX file.")
        ELSE IF ~readable(view, start + 12) THEN rangeError("endianness")
        ELSE IF getUint32(view, start + 12) # endiannessTest
        THEN throwRuntimeError("File is the wrong endianness.")
        ELSE IF ~readable(view, start + 60) THEN rangeError("header")
        ELSE LET h == readHeader(view, start)
                 sizeOffset == start + 64 + h.bytesOfKeyValueByteSize
             IN  IF ~readable(view, sizeOffset) THEN rangeError("imageSize")
                 ELSE LET imageSize == getUint32(view, sizeOffset)
                          byteOffset == sizeOffset + sizeOfUint32
                      IN  IF d.kind = "ArrayBuffer" /\ byteOffset + imageSize > Len(d.buffer)
                          THEN rangeError("texture view")
                          ELSE validateKTX(h, textureView(d, byteOffset, imageSize))

(***************************************************************************)
(* The containers loadKTX is given.                                        *)
(***************************************************************************)
Uint32Bytes(n) ==
    <<n % 256, (n \div 256) % 256, (n \div 65536) % 256, n \div 16777216>>

Bytes(n, b) == [i \in 1..n |-> b]

\* The bytes of mip level `level` (0 is the first): all equal to 200 + level.
LevelBytes(size, level) == Bytes(size, 200 + level)

\* The size of mip level 0 a writer stores for the format.
WrittenLevelSize(f, width, height) ==
    IF isCompressedFormat(f) THEN compressedTextureSize(f, width, height)
    ELSE IF f \in {PixelFormat.RGBA, 32856} THEN width * height * 4
    ELSE width * height * 3

RECURSIVE LaterLevels(_, _, _)
LaterLevels(size, level, count) ==
    IF level >= count THEN <<>>
    ELSE Uint32Bytes(size) \o LevelBytes(size, level) \o LaterLevels(size, level + 1, count)

\* A container file: the header fields c, c.keyValue bytes of metadata, the
\* declared imageSize, level 0 and the later mip levels.
ContainerBytes(c) ==
    LET size == WrittenLevelSize(c.glInternalFormat, c.pixelWidth, c.pixelHeight)
    IN  [i \in 1..12 |-> IF c.magic THEN fileIdentifier[i] ELSE 0]
        \o Uint32Bytes(c.endianness)
        \o Uint32Bytes(c.glType) \o Uint32Bytes(c.glTypeSize) \o Uint32Bytes(c.glFormat)
        \o Uint32Bytes(c.glInternalFormat) \o Uint32Bytes(c.glBaseInternalFormat)
        \o Uint32Bytes(c.pixelWidth) \o Uint32Bytes(c.pixelHeight)
        \o Uint32Bytes(c.pixelDepth) \o Uint32Bytes(c.numberOfArrayElements)
        \o Uint32Bytes(c.numberOfFaces) \o Uint32Bytes(c.numberOfMipmapLevels)
        \o Uint32Bytes(c.keyValue) \o Bytes(c.keyValue, 107)
        \o Uint32Bytes(size + c.excess) \o LevelBytes(size, 0)
        \o LaterLevels(size, 1, c.numberOfMipmapLevels)

Containers ==
    [magic : BOOLEAN,
     endianness : {endiannessTest, 16909060},
     glType : {0, 5121},
     glTypeSize : {1, 4},
     glFormat : {0, PixelFormat.RGB},
     glInternalFormat : {PixelFormat.RGB_DXT1, PixelFormat.RGBA_DXT5, PixelFormat.RGB,
                         PixelFormat.RGBA, 32849, 32856, 4660},
     glBaseInternalFormat : {PixelFormat.RGB, PixelFormat.RGBA},
     pixelWidth : {4, 8},
     pixelHeight : {4},
     pixelDepth : {0, 1},
     numberOfArrayElements : {0, 1},
     numberOfFaces : {1, 6},
     numberOfMipmapLevels : 0..MaxMipmapLevels,
     keyValue : {0, MaxKeyValueBytes},
     excess : {0, 4}]

\* The file alone in an ArrayBuffer, or a typed-array view of it inside a larger
\* buffer (as a Node.js Buffer is), padding bytes before and after.
DataOf(c, kind, padding) ==
    LET file == ContainerBytes(c)
    IN  IF kind = "ArrayBuffer"
        THEN [kind |-> kind, buffer |-> file, byteOffset |-> 0, length |-> Len(file)]
        ELSE [kind |-> kind, buffer |-> Bytes(padding, 99) \o file \o Bytes(padding, 99),
              byteOffset |-> padding, length |-> Len(file)]

InitKTX ==
    /\ \E c \in Containers, kind \in {"ArrayBuffer", "Uint8Array"}, padding \in {0, MaxPadding} :
           /\ kind = "ArrayBuffer" => padding = 0
           /\ data = Some(DataOf(c, kind, padding))
    /\ parsed = Undefined
    /\ gltfDefined = FALSE
    /\ options = OnlyFormat(Undefined)
    /\ images = <<>>
    /\ NoTasks

\* Lines 67-82: the buffer is passed to parseKTX; the promise resolves with its
\* result or rejects with what it threw.
LoadKTX ==
    /\ defined(data)
    /\ parsed = Undefined
    /\ parsed' = Some(parseKTX(data[1]))
    /\ UNCHANGED data
    /\ UNCHANGED runVars

NextKTX == LoadKTX

SpecKTX == InitKTX /\ [][NextKTX]_vars

(***************************************************************************)
(* Properties                                                              *)
(***************************************************************************)
InFlight == {"png", "write", "spawned", "read"}

Settled == {"resolved", "rejected"}

\* Nothing is left to run: the synchronous part is over and no operation is pending.
Quiescent ==
    /\ CallbacksRun
    /\ ensureDir # "pending"
    /\ remove # "pending"
    /\ \A i \in ImageIds : task[i] \notin InFlight

\* C1: the removal of the temp directory starts only after every per-image
\* task has finished its last filesystem activity (temp input write, encoder
\* exit, output read), also when one task fails while siblings are in flight.
C1_RemovalAfterAllTaskActivity ==
    remove # "notCalled" => \A i \in ImageIds : task[i] \notin InFlight

\* C2: the promise compressTextures returns settles only after every
\* per-image task has settled.
C2_SettlesAfterAllTasks ==
    result \in Settled => \A i \in ImageIds : task[i] \in {"done", "failed"}

\* C3: once the returned promise has settled the temp directory does not
\* exist on disk, at that moment and at every later one.
C3_NoDirectoryAfterSettlement ==
    result \in Settled => ~dirExists

\* C4: every run that passes option validation issues the removal of its temp
\* directory exactly once, whatever the outcome: when nothing is left to run,
\* fsExtraRemove has been called once.
C4_RemovalIssuedExactlyOnce ==
    (Quiescent /\ thrown # "InvalidOptions") => removeCount = 1

\* An image that needs its raw pixels and has no decoded-pixel handle.
RawUnavailable(i) ==
    /\ needsRawImage(options.format[1], loaded[i])
    /\ ~loaded[i].jimpImage

\* C5: an image that needs raw pixels and has none fails alone: once the
\* synchronous part is over every other image of the batch has been attempted.
C5_OtherImagesStillAttempted ==
    (CallbacksRun /\ thrown # "InvalidOptions") =>
        \A i \in ImageIds : RawUnavailable(i) \/ task[i] # "idle"

\* C6: the temp directory has been created before any per-image task performs
\* its first step: whenever a task has written its temp input file or spawned
\* its encoder, the directory has been created.
C6_DirectoryCreatedBeforeFirstStep ==
    \A i \in ImageIds :
        (spawnCount[i] > 0 \/ <<"input", i>> \in files) => dirCreated

\* The image as loaded can be forwarded as it is: accepted extension, not
\* changed, both dimensions powers of two.
ForwardableAsIs(i) ==
    /\ loaded[i].extension \in inputExtensions(options.format[1])
    /\ ~loaded[i].imageChanged
    /\ isPowerOfTwo(loaded[i].width)
    /\ isPowerOfTwo(loaded[i].height)

\* C7: under every format, an image with an accepted extension, not dirty and
\* with power-of-two dimensions goes to the encoder as its original bytes,
\* without a PNG re-encode and without needing a decoded-pixel handle.
C7_ForwardedUnchanged ==
    \A i \in ImageIds :
        (pc \in {"loop", "returned", "threw"} /\ thrown # "InvalidOptions"
         /\ imageId >= i /\ ForwardableAsIs(i)) =>
            /\ ~(thrown = "UnsupportedInputFormat" /\ imageId = i)
            /\ imageId > i =>
                   /\ route[i] \in {"file", "buffer"}
                   /\ input[i] = Some([path |-> IF loaded[i].absolutePath
                                                THEN "absolutePath" ELSE "temp",
                                       bytes |-> "original",
                                       extension |-> loaded[i].extension])

\* The rule of the documentation for rejecting the arguments.
RejectedByRule(g, o) ==
    \/ ~g
    \/ ~defined(o.format)
    \/ o.format[1] \notin formats
    \/ defaultValue(o.quality, 5) < 0
    \/ defaultValue(o.quality, 5) > 10
    \/ o.format[1] \in {"pvrtc1", "pvrtc2"} /\ defaultValue(o.bitrate, 20) \notin {20, 40}
    \/ o.format[1] = "astc" /\ defaultValue(o.blockSize, "8x8") \notin astcBlockSizes

\* C8: compressTextures throws InvalidOptions exactly when gltf is undefined,
\* format is undefined or unsupported, quality (default 5) is outside 0..10,
\* format is pvrtc1/pvrtc2 and bitrate (default 2.0) is neither 2 nor 4, or
\* format is astc and blockSize (default 8x8) is not a supported block size.
C8_RejectsExactlyInvalidOptions ==
    pc # "start" => ((thrown = "InvalidOptions") <=> RejectedByRule(gltfDefined, options))

C8_Witness ==
    /\ pc = "threw"
    /\ thrown = "InvalidOptions"
    /\ options.format = Some("pvrtc2")
    /\ options.bitrate = Some(30)
    /\ options.quality = Some(10)

NoWorkStarted ==
    /\ ~dirCreated
    /\ ~dirExists
    /\ files = {}
    /\ ensureDir = "notCalled"
    /\ remove = "notCalled"
    /\ result = "none"
    /\ images = loaded
    /\ \A i \in ImageIds : task[i] = "idle" /\ spawnCount[i] = 0

\* C9: when the options are invalid the call throws at once and no work is
\* ever started: no temp directory, no file, no encoder process, no promise,
\* and no image record changed.
C9_InvalidOptionsStartNothing ==
    RejectedByRule(gltfDefined, options) =>
        /\ pc \in {"start", "threw"}
        /\ pc = "threw" => thrown = "InvalidOptions"
        /\ NoWorkStarted

C9_Witness ==
    /\ pc = "threw"
    /\ thrown = "InvalidOptions"
    /\ options.quality = Some(11)
    /\ Len(images) = NumImages
    /\ NoWorkStarted

\* The 32-bit field the container layout puts at `offset` of the file in data.
Field(offset) == getUint32(data[1].buffer, data[1].byteOffset + offset)

\* The bytes of the file in data from `offset`, `length` of them.
FileBytes(offset, length) ==
    SubSeq(data[1].buffer, data[1].byteOffset + offset + 1,
           data[1].byteOffset + offset + length)

\* C10: for a container that passes validation and declares one mip level,
\* given as an ArrayBuffer or as a typed-array view, bufferView is a view of the
\* caller's buffer (not a copy), imageSize bytes long, over the bytes
\* [68 + kv, 68 + kv + imageSize) of the file, kv being bytesOfKeyValueData.
C10_SingleLevelViewIsTextureRange ==
    (defined(parsed) /\ parsed[1].ok /\ Field(56) = 1) =>
        LET kv == Field(60)
            imageSize == Field(64 + kv)
            bufferView == parsed[1].bufferView
        IN  /\ bufferView.shared
            /\ bufferView.length = imageSize
            /\ bufferView.byteOffset = data[1].byteOffset + 68 + kv
            /\ bufferView.bytes = FileBytes(68 + kv, imageSize)

\* C11: for a compressed container that passes validation and declares more
\* than one mip level, bufferView is exactly the bytes of level 0: it starts
\* at offset 68 + kv of the file, is as long as the level-0 size computed from
\* the format, width and height, and holds no header and no later-level byte.
C11_MultiLevelViewIsLevelZero ==
    (defined(parsed) /\ parsed[1].ok /\ isCompressedFormat(parsed[1].internalFormat)
     /\ Field(56) > 1) =>
        LET kv == Field(60)
            levelSize == compressedTextureSize(parsed[1].internalFormat, Field(36), Field(40))
            bufferView == parsed[1].bufferView
        IN  /\ bufferView.length = levelSize
            /\ bufferView.byteOffset =
                   68 + kv + (IF bufferView.shared THEN data[1].byteOffset ELSE 0)
            /\ bufferView.bytes = FileBytes(68 + kv, levelSize)

\* The internal format of the file in data, the sized aliases 0x8051 and
\* 0x8058 standing for RGB and RGBA.
FileFormat ==
    IF Field(28) = 32849 THEN PixelFormat.RGB
    ELSE IF Field(28) = 32856 THEN PixelFormat.RGBA
    ELSE Field(28)

\* The first violation of the file in data, in the documented order; "" when
\* the file violates nothing.
FirstViolationInOrder ==
    IF FileBytes(0, 12) # fileIdentifier THEN "Invalid KTX file."
    ELSE IF Field(12) # endiannessTest THEN "File is the wrong endianness."
    ELSE IF ~validate(FileFormat) THEN "glInternalFormat is not a valid format."
    ELSE IF isCompressedFormat(FileFormat) /\ Field(16) # 0
    THEN "glType must be zero when the texture is compressed."
    ELSE IF isCompressedFormat(FileFormat) /\ Field(20) # 1
    THEN "The type size for compressed textures must be 1."
    ELSE IF isCompressedFormat(FileFormat) /\ Field(24) # 0
    THEN "glFormat must be zero when the texture is compressed."
    ELSE IF isCompressedFormat(FileFormat) /\ Field(56) = 0
    THEN "Generating mipmaps for a compressed texture is unsupported."
    ELSE IF ~isCompressedFormat(FileFormat) /\ Field(32) # Field(24)
    THEN "The base internal format must be the same as the format for uncompressed textures."
    ELSE IF Field(44) # 0 THEN "3D textures are unsupported."
    ELSE IF Field(48) # 0 THEN "Texture arrays are unsupported."
    ELSE IF Field(52) # 1 THEN "Cubemaps are unsupported."
    ELSE ""

\* C12: when a container violates several conditions, the parse fails at the
\* check of the one that comes first in the order magic, endianness,
\* internal format, compressed checks (glType, glTypeSize, glFormat, mip
\* levels) or base-format check, pixelDepth, numberOfArrayElements,
\* numberOfFaces; also when the declared imageSize or key-value size exceeds
\* the bytes that follow the header.
C12_FirstViolationReported ==
    (defined(parsed) /\ FirstViolationInOrder # "") =>
        /\ ~parsed[1].ok
        /\ parsed[1].check = FirstViolationInOrder

\* C13: every parse failure is a RuntimeError whose message identifies the
\* check that was violated.
C13_FailureIsRuntimeError ==
    (defined(parsed) /\ ~parsed[1].ok) =>
        /\ parsed[1].name = "RuntimeError"
        /\ parsed[1].message = parsed[1].check

\* Magic, endianness and internal format of the file in data are valid.
ValidPrefix ==
    /\ FileBytes(0, 12) = fileIdentifier
    /\ Field(12) = endiannessTest
    /\ validate(FileFormat)

\* The conditions on the remaining header fields.
MeetsConditions ==
    /\ isCompressedFormat(FileFormat) =>
           Field(16) = 0 /\ Field(20) = 1 /\ Field(24) = 0 /\ Field(56) >= 1
    /\ ~isCompressedFormat(FileFormat) => Field(32) = Field(24)
    /\ Field(44) = 0
    /\ Field(48) = 0
    /\ Field(52) = 1

\* C14 as stated: a container with valid magic, endianness and internal
\* format is accepted exactly when it meets the conditions on glType,
\* glTypeSize, glFormat, mip levels (compressed) or base format
\* (uncompressed), pixelDepth, numberOfArrayElements and numberOfFaces.
C14_AcceptsExactlyValidContainers ==
    (defined(parsed) /\ ValidPrefix) => (parsed[1].ok <=> MeetsConditions)

\* Every byte range the parse takes lies inside the buffer: the imageSize
\* field, the imageSize bytes after it when data is an ArrayBuffer, and the
\* level-0 size of a compressed texture with several mip levels.
FitsBuffer ==
    LET kv == Field(60)
        start == data[1].byteOffset
    IN  /\ readable(data[1].buffer, start + 64 + kv)
        /\ data[1].kind = "ArrayBuffer" =>
               68 + kv + Field(64 + kv) <= Len(data[1].buffer)
        /\ (isCompressedFormat(FileFormat) /\ Field(56) > 1) =>
               compressedTextureSize(FileFormat, Field(36), Field(40)) <= Len(bytesOf(data[1]))

\* C14, amended: a container with valid magic, endianness and internal format
\* whose declared sizes lie inside the buffer is accepted exactly when it
\* meets the conditions; a container whose declared sizes exceed the buffer
\* is rejected whatever its fields.
C14_AcceptsExactlyValidContainersThatFit ==
    (defined(parsed) /\ ValidPrefix) =>
        (parsed[1].ok <=> (MeetsConditions /\ FitsBuffer))

C14_Witness ==
    /\ defined(parsed)
    /\ parsed[1].ok
    /\ data[1].kind = "ArrayBuffer"
    /\ parsed[1].internalFormat = PixelFormat.RGBA_DXT5
    /\ Field(56) = 2
    /\ Field(60) = MaxKeyValueBytes

\* What a caller can observe of a parse: failure and its check, or the
\* format, the dimensions and the byte range of bufferView.
Outcome(r) ==
    IF r.ok
    THEN <<"ok", r.internalFormat, r.width, r.height, r.bufferView.byteOffset,
           r.bufferView.length>>
    ELSE <<r.name, r.check>>

\* data with the glInternalFormat field of the file replaced by f.
WithInternalFormat(d, f) ==
    [d EXCEPT !.buffer =
        [i \in 1..Len(d.buffer) |->
            IF i - d.byteOffset \in 29..32
            THEN Uint32Bytes(f)[i - d.byteOffset - 28]
            ELSE d.buffer[i]]]

\* C15: replacing a glInternalFormat of 0x8051 by RGB, or of 0x8058 by RGBA,
\* leaves the outcome of the parse unchanged: the same success or failure
\* and, on success, the same internalFormat, width, height and byte range.
C15_SizedAliasesParseAsBaseFormats ==
    (defined(parsed) /\ Field(28) \in {32849, 32856}) =>
        Outcome(parsed[1]) = Outcome(parseKTX(WithInternalFormat(data[1], FileFormat)))

C15_Witness ==
    /\ defined(parsed)
    /\ parsed[1].ok
    /\ Field(28) = 32856
    /\ parsed[1].internalFormat = PixelFormat.RGBA
    /\ data[1].kind = "Uint8Array"

PowersOfTwo == {Pow2(k) : k \in 0..30}

\* The largest power of two that is at most n (n - p < p says n < 2p).
LargestPowerOfTwoAtMost(n) == CHOOSE p \in PowersOfTwo : p <= n /\ n - p < p

\* C16: under etc1, etc2 and astc a decoded image one of whose dimensions is
\* not a power of two is resized so that each dimension becomes the largest
\* power of two at most its original value, for dimensions up to 2^31 - 1;
\* an image with two power-of-two dimensions is not resized, and under the
\* other formats no image is.
C16_ResizedToPreviousPowerOfTwo ==
    \A i \in ImageIds :
        (imageId > i /\ loaded[i].jimpImage) =>
            IF options.format[1] \in {"etc1", "etc2", "astc"}
               /\ (loaded[i].width \notin PowersOfTwo \/ loaded[i].height \notin PowersOfTwo)
            THEN /\ images[i].width = LargestPowerOfTwoAtMost(loaded[i].width)
                 /\ images[i].height = LargestPowerOfTwoAtMost(loaded[i].height)
            ELSE /\ images[i].width = loaded[i].width
                 /\ images[i].height = loaded[i].height

C16_Witness ==
    /\ imageId = 2
    /\ options.format = Some("etc2")
    /\ loaded[1].width = 2147483647
    /\ images[1].width = 1073741824
    /\ loaded[1].height = 211
    /\ images[1].height = 128

\* C17: a task succeeds, installing the bytes of its output file, only when
\* its encoder exited with code 0, and after an exit with code 0 it fails
\* only when the output file cannot be read; a non-zero exit fails the task
\* with an error carrying that code, a spawn error with the system error;
\* the encoder is spawned at most once per image.
C17_TaskFollowsEncoderOutcome ==
    \A i \in ImageIds :
        /\ spawnCount[i] <= 1
        /\ task[i] = "done" =>
               /\ exitCode[i] = Some(0)
               /\ images[i].source = [bytes |-> "compressed", image |-> i]
        /\ (defined(exitCode[i]) /\ exitCode[i] # Some(0)) =>
               /\ task[i] = "failed"
               /\ taskError[i] = "Converter tool exited with an error code of "
                                     \o ToString(exitCode[i][1])
        /\ (task[i] = "failed" /\ exitCode[i] = Some(0)) => taskError[i] = "read error"
        /\ (task[i] = "failed" /\ spawnCount[i] = 1 /\ exitCode[i] = Undefined) =>
               taskError[i] = "spawn error"
        /\ exitCode[i] = Some(0) => task[i] \in {"read", "done", "failed"}

C17_Witness ==
    /\ Len(images) = 2
    /\ task[1] = "done"
    /\ task[2] = "failed"
    /\ exitCode[2] = Some(MaxExitCode)
    /\ spawnCount[2] = 1

\* C18: the only change made to an image record is the replacement of its
\* source bytes and extension when its task succeeds; until then, and when
\* the task fails, the record (source, extension, decoded pixels) is as it
\* was loaded, and no task changes the record of another image.
C18_OnlySourceAndExtensionReplaced ==
    \A i \in ImageIds :
        IF task[i] = "done"
        THEN images[i] = [loaded[i] EXCEPT
                              !.source = [bytes |-> "compressed", image |-> i],
                              !.extension = outputExtension(options.format[1])]
        ELSE images[i] = loaded[i]

\* C19: when every image compresses successfully the promise compressTextures
\* returns is fulfilled with the glTF asset that was passed in.
C19_ResolvesToGltf ==
    result = "resolved" => (defined(resolvedWith) /\ resolvedWith[1].type = "gltf")

\* C20: for format astc the rate argument of astcenc is the bitrate whenever
\* the caller supplied options.bitrate, and the block size (default 8x8) only
\* when no bitrate was supplied.
C20_SuppliedBitrateIsTheRate ==
    \A i \in ImageIds :
        (given.format = Some("astc") /\ defined(invocation[i])) =>
            LET rate == invocation[i][1].options[4]
            IN  IF defined(given.bitrate)
                THEN rate = numberToString(given.bitrate[1])
                ELSE rate = defaultValue(given.blockSize, "8x8")

\* The changes of task[i] that follow the order of the steps: PNG encoding
\* (raw-pixel path only), write of the temp input, spawn, exit, read, replace.
StepOrder ==
    {<<"idle", "png">>, <<"idle", "write">>, <<"idle", "spawned">>, <<"png", "write">>,
     <<"write", "spawned">>, <<"write", "failed">>, <<"spawned", "read">>,
     <<"spawned", "failed">>, <<"read", "done">>, <<"read", "failed">>}

\* One step of the program, seen from the task of image i.
TaskStepInOrder(i) ==
    /\ task'[i] # task[i] => <<task[i], task'[i]>> \in StepOrder
    /\ spawnCount'[i] # spawnCount[i] =>
           /\ task'[i] = "spawned"
           /\ \/ route'[i] = "file" /\ task[i] = "idle"
              \/ task[i] = "write" /\ <<"input", i>> \in files'
    /\ exitCode'[i] # exitCode[i] => task[i] = "spawned" /\ spawnCount[i] = 1
    /\ (task'[i] = "read" /\ task[i] # "read") => exitCode'[i] = Some(0)
    /\ images'[i].source # images[i].source =>
           /\ task[i] = "read"
           /\ task'[i] = "done"
           /\ <<"output", i>> \in files
    /\ task[i] \in {"failed", "done"} =>
           /\ task'[i] = task[i]
           /\ spawnCount'[i] = spawnCount[i]
           /\ exitCode'[i] = exitCode[i]
           /\ images'[i] = images[i]
           /\ files' \cap {<<"input", i>>, <<"output", i>>}
                  \subseteq files \cap {<<"input", i>>, <<"output", i>>}

\* C21: within the task of one image the steps occur in the order write temp
\* input file, spawn encoder, encoder exit, read output file, replace image;
\* no step begins before the one before it has completed, and after a failed
\* step the task performs no later step.
C21_StepsStrictlySequential ==
    [][\A i \in ImageIds : TaskStepInOrder(i)]_vars

C21_Witness ==
    /\ task[1] = "done"
    /\ route[1] = "jimp"
    /\ spawnCount[1] = 1
    /\ task[2] = "failed"
    /\ taskError[2] = "write error"
    /\ spawnCount[2] = 0

\* C22: the compressed result installed in an image has extension .ktx for
\* pvrtc1, pvrtc2, etc1, etc2, astc, dxt1, dxt3 and dxt5 and .crn for
\* crunch-dxt1, crunch-dxt3 and crunch-dxt5; the -fileformat argument given to
\* crunch (ktx or crn) agrees with the extension of its output path.
C22_ContainerExtensionFollowsFormat ==
    \A i \in ImageIds :
        /\ task[i] = "done" =>
               images[i].extension =
                   IF options.format[1] \in {"pvrtc1", "pvrtc2", "etc1", "etc2", "astc",
                                             "dxt1", "dxt3", "dxt5"}
                   THEN ".ktx" ELSE ".crn"
        /\ (defined(invocation[i]) /\ invocation[i][1].path = "crunch") =>
               LET arguments == invocation[i][1].options
               IN  /\ arguments[3] = "-out"
                   /\ arguments[5] = "-fileformat"
                   /\ arguments[6] \in {"ktx", "crn"}
                   /\ arguments[4] = "tempDirectory/output." \o arguments[6]

C22_Witness ==
    /\ options.format = Some("crunch-dxt1")
    /\ task[1] = "done"
    /\ images[1].extension = ".crn"
    /\ invocation[1][1].path = "crunch"
    /\ task[2] = "done"

\* C23: the outcome of the task of one image depends only on that image and
\* its own encoder run: whatever its siblings do, a task that is still under
\* way never loses its temp input file or its output file.
C23_TaskKeepsItsFiles ==
    [][\A i \in ImageIds :
           task[i] \in InFlight =>
               files \cap {<<"input", i>>, <<"output", i>>} \subseteq files']_vars

\* C24: when every encoder has exited or reported a spawn error and every
\* file operation has completed (nothing is left to run), the promise
\* compressTextures returned has settled; and while the encoder of some
\* image has not exited and no task has failed, the promise has not settled.
C24_SettlesWhenAllDoneAndNotBefore ==
    /\ (pc = "returned" /\ Quiescent) => result \in Settled
    /\ ((\E i \in ImageIds : task[i] = "spawned")
        /\ (\A i \in ImageIds : task[i] # "failed")) => result \notin Settled

\* C25: whenever the promise compressTextures returned is resolved, every
\* image of gltf.images holds the output of its own encoder run in place of
\* its original bytes, with the extension of the container; no image holds
\* the output of another image.
C25_ResolvedMeansEveryImageReplaced ==
    result = "resolved" =>
        \A i \in ImageIds :
            /\ images[i].source = [bytes |-> "compressed", image |-> i]
            /\ images[i].source # loaded[i].source
            /\ images[i].extension \in {".ktx", ".crn"}
            /\ exitCode[i] = Some(0)

C25_Witness ==
    /\ result = "resolved"
    /\ Len(images) = 2
    /\ route[1] = "jimp"
    /\ route[2] = "file"
    /\ images[2].source = [bytes |-> "compressed", image |-> 2]

\* The quality labels of the three tools that take a tier, lowest first.
TierLabels(path) ==
    IF path = "PVRTexToolCLI"
    THEN <<"pvrtcfastest", "pvrtcfast", "pvrtcnormal", "pvrtchigh", "pvrtcbest">>
    ELSE IF path = "crunch" THEN <<"superfast", "fast", "normal", "better", "uber">>
    ELSE <<"-veryfast", "-fast", "-medium", "-thorough", "-exhaustive">>

\* The argument of the command line that carries the quality.
QualityArgument(cli) ==
    IF cli.path = "etc2comp" THEN cli.options[5]
    ELSE IF cli.path = "PVRTexToolCLI" THEN cli.options[8]
    ELSE IF cli.path = "crunch" THEN cli.options[10]
    ELSE cli.options[7]

\* floor(q / 2.1) for q in 0..10, stated without a division: the t of 0..4
\* with 2.1 t <= q < 2.1 (t + 1).
TierOf(q) == CHOOSE t \in 0..4 : 21 * t <= 10 * q /\ 10 * q < 21 * (t + 1)

\* C26: for every accepted quality q of 0..10 the quality argument of the
\* PVRTexTool, crunch and astcenc command lines is the label of tier
\* floor(q / 2.1), which lies in 0..4 (the label is defined), does not
\* decrease with q, is the lowest tier for 0 and the highest for 10; the
\* -effort argument of etc2comp is q * 10, which lies in 0..100.
C26_QualityMapsToToolScale ==
    \A i \in ImageIds :
        invocation[i] # Undefined =>
            LET cli == invocation[i][1]
                q == options.quality[1]
                labels == TierLabels(cli.path)
            IN  /\ q \in 0..10
                /\ IF cli.path = "etc2comp"
                   THEN /\ cli.options[4] = "-effort"
                        /\ \E e \in 0..100 : e = q * 10 /\ QualityArgument(cli) = ToString(e)
                   ELSE /\ \E t \in 0..4 : 21 * t <= 10 * q /\ 10 * q < 21 * (t + 1)
                        /\ QualityArgument(cli) = labels[TierOf(q) + 1]
                        /\ QualityArgument(cli) # "undefined"
                        /\ qualityIndex(q) = TierOf(q)
                        /\ \A p \in 0..q : qualityIndex(p) <= qualityIndex(q)
                        /\ q = 0 => QualityArgument(cli) = labels[1]
                        /\ q = 10 => QualityArgument(cli) = labels[5]

C26_Witness ==
    /\ given.quality = Some(10)
    /\ invocation[1] # Undefined
    /\ invocation[1][1].path = "astcenc"
    /\ invocation[1][1].options[7] = "-exhaustive"
    /\ route[1] = "jimp"

\* C27: a failed removal of the temp directory leaves the outcome of the
\* returned promise as the tasks determined it: in the step in which the
\* removal fails and in every later one the promise keeps its state and its
\* value, it is resolved exactly when every task is done, and it is rejected
\* only when a task failed.
C27_RemovalFailureKeepsOutcome ==
    [][remove' = "failed" =>
          /\ result' = result
          /\ resolvedWith' = resolvedWith
          /\ result' \in Settled
          /\ result' = "resolved" <=> \A i \in ImageIds : task'[i] = "done"
          /\ result' = "rejected" => \E i \in ImageIds : task'[i] = "failed"]_vars

C27_Witness ==
    /\ remove = "failed"
    /\ result = "resolved"
    /\ Len(images) = 2
    /\ \A i \in ImageIds : task[i] = "done"

\* The argument of the command line that names the sub-mode of the format.
SubModeArgument(cli) ==
    IF cli.path = "etc2comp" THEN cli.options[3]
    ELSE IF cli.path = "PVRTexToolCLI" THEN cli.options[6]
    ELSE IF cli.path = "crunch" THEN cli.options[15]
    ELSE IF Len(cli.options) = 8 THEN cli.options[8] ELSE "opaque"

\* The sub-mode of the format for an image with the given transparency flag.
SubModeFor(format, bitrate, alphaBit, transparent) ==
    IF format = "etc1" THEN "ETC1"
    ELSE IF format = "etc2"
    THEN IF ~transparent THEN "RGB8" ELSE IF alphaBit THEN "RGB8A1" ELSE "RGBA8"
    ELSE IF format \in {"pvrtc1", "pvrtc2"}
    THEN (IF format = "pvrtc1" THEN "PVRTC1_" ELSE "PVRTC2_") \o ToString(bitrate \div 10)
         \o (IF format = "pvrtc1" /\ ~transparent THEN "_RGB" ELSE "")
    ELSE IF format \in {"dxt1", "crunch-dxt1"}
    THEN IF transparent THEN "-DXT1A" ELSE "-DXT1"
    ELSE IF format \in {"dxt3", "crunch-dxt3"} THEN "-DXT3"
    ELSE IF format \in {"dxt5", "crunch-dxt5"} THEN "-DXT5"
    ELSE IF transparent THEN "-alphablend" ELSE "opaque"

\* C28: the command line of every encoder started for image i carries the
\* sub-mode of the format that the options and the transparency flag of
\* image i itself select, and that argument is defined, whether the command
\* line was built in the loop or after the image's temp input was written
\* and whatever the flags of the other images.
C28_InvocationUsesOwnTransparency ==
    \A i \in ImageIds :
        invocation[i] # Undefined =>
            /\ SubModeArgument(invocation[i][1]) # "undefined"
            /\ SubModeArgument(invocation[i][1]) =
                   SubModeFor(options.format[1], options.bitrate[1], options.alphaBit[1],
                              loaded[i].transparent)

C28_Witness ==
    /\ options.format = Some("etc2")
    /\ given.alphaBit = Some(TRUE)
    /\ Len(images) = 2
    /\ loaded[1].transparent /\ ~loaded[2].transparent
    /\ route[1] = "jimp" /\ route[2] = "jimp"
    /\ invocation[1] # Undefined /\ invocation[2] # Undefined
    /\ invocation[1][1].options[3] = "RGB8A1"
    /\ invocation[2][1].options[3] = "RGB8"

=============================================================================
